---- MODULE Spec2Model ----
(***************************************************************************)
(* A model of regelum's dynamical-system layer: System and its subclasses  *)
(* (system.py), ComposedSystem (system.py) and Simulator with its SciPy    *)
(* and CasADi integrators (simulator.py).                                  *)
(*                                                                         *)
(* Numbers are integers: a time is a number of ticks, a state component a  *)
(* number of units.  Python's None is the string "None".  A Python dict is *)
(* a function whose domain is the set of its keys; the class-level         *)
(* `_parameters` dicts are objects of the heap `dicts`, and a System       *)
(* instance holds references (DictIds) to them, as the code does.          *)
(***************************************************************************)
EXTENDS Integers, Sequences, FiniteSets, TLC

VARIABLES
    dicts,      \* heap of the class-level `_parameters` dict objects
    systems,    \* System instances, by instance id
    sim,        \* the Simulator instance (NoSim before construction)
    composed,   \* the ComposedSystem last constructed, or the error raised
    last,       \* the last call made: operation, receiver, outcome
    ghost       \* history: values captured when a constructor returned,
                \* and what happened inside the last do_sim_step

vars == <<dicts, systems, sim, composed, last, ghost>>

---------------------------------------------------------------------------
(* Bounds of the model *)

MaxParamVal == 2
MaxVecLen == 3
MaxTime == 3
MaxStep == 2
MaxIdx == 2
MaxPermLen == 3
MaxArgs == 2

None == "None"
\* the value do_sim_step returns when the step failed (return -1)
FailureSentinel == "-1"
NoSystem == [cls |-> None]
NoSim == [cls |-> None]

SysIds == {1, 2}
Keys == {"m", "l"}
Vals == 1..MaxParamVal

Dicts == UNION {[K -> Vals] : K \in SUBSET Keys}
\* the dicts given to update_system_parameters and to the constructor
Patches == Dicts
EmptyDict == [k \in {} |-> 1]

\* the vectors handed to receive_action / receive_state
VecArgs == UNION {[1..n -> {1}] : n \in 1..MaxVecLen}

zeros(n) == [i \in 1..n |-> 0]

\* max of a non-empty set of integers
max(S) == CHOOSE m \in S : \A n \in S : n <= m

---------------------------------------------------------------------------
(* Classes: the class attributes of System and of its subclasses *)

\* subclasses of the repository, and three subclasses that leave one
\* dimension attribute unset (inputs of the constructor check)
Classes == {"KinematicPoint", "InvertedPendulumPID", "GridWorld",
            "NoDimState", "NoDimInputs", "NoDimObservation"}

\* which class-level dict object `cls._parameters` is: a subclass that does
\* not define `_parameters` inherits System's
DictIds == {"System", "InvertedPendulumPID", "Integrator"}

ClassAttrs(cls) ==
    CASE cls = "KinematicPoint" ->
            [_name |-> "kinematic-point", _system_type |-> "diff_eqn",
             _dim_state |-> <<2>>, _dim_inputs |-> <<2>>,
             _dim_observation |-> <<2>>, _parameters |-> "System"]
      [] cls = "InvertedPendulumPID" ->
            [_name |-> "inverted-pendulum", _system_type |-> "diff_eqn",
             _dim_state |-> <<2>>, _dim_inputs |-> <<1>>,
             _dim_observation |-> <<3>>, _parameters |-> "InvertedPendulumPID"]
      [] cls = "Integrator" ->
            [_name |-> "integral-parts", _system_type |-> "diff_eqn",
             _dim_state |-> <<2>>, _dim_inputs |-> <<2>>,
             _dim_observation |-> <<2>>, _parameters |-> "Integrator"]
      [] cls = "GridWorld" ->
            [_name |-> None, _system_type |-> None,
             _dim_state |-> <<>>, _dim_inputs |-> <<>>,
             _dim_observation |-> <<>>, _parameters |-> "System"]
      [] cls = "NoDimState" ->
            [_name |-> "no-dim-state", _system_type |-> "diff_eqn",
             _dim_state |-> <<>>, _dim_inputs |-> <<1>>,
             _dim_observation |-> <<1>>, _parameters |-> "System"]
      [] cls = "NoDimInputs" ->
            [_name |-> "no-dim-inputs", _system_type |-> "diff_eqn",
             _dim_state |-> <<1>>, _dim_inputs |-> <<>>,
             _dim_observation |-> <<1>>, _parameters |-> "System"]
      [] OTHER ->
            [_name |-> "no-dim-observation", _system_type |-> "diff_eqn",
             _dim_state |-> <<1>>, _dim_inputs |-> <<1>>,
             _dim_observation |-> <<>>, _parameters |-> "System"]

\* the class-level dicts as the class bodies define them (g of the pendulum
\* is a constant of the model and is left out)
ClassDicts ==
    [d \in DictIds |->
        IF d = "InvertedPendulumPID" THEN [k \in Keys |-> 1]
        ELSE IF d = "Integrator" THEN [k \in {"m", "I"} |-> IF k = "m" THEN 10 ELSE 1]
        ELSE EmptyDict]

\* a dimension attribute is <<n>> when set and <<>> when left None
IsSet(attr) == attr # <<>>
Dim(attr) == attr[1]

---------------------------------------------------------------------------
(* System (system.py) *)

\* dict.update
\* an update that replaces the dict by the patch
Mutant_update_replaces(d, inputs) == inputs

DictUpdate(d, inputs) ==
    [k \in (DOMAIN d) \cup (DOMAIN inputs) |->
        IF k \in DOMAIN inputs THEN inputs[k] ELSE d[k]]

\* the result of the last call: the exception that reached the caller ("" when
\* none did), the value returned, and the vector argument of a setter
Call(op, self, raised, ret, arg) ==
    [op |-> op, self |-> self, raised |-> raised, ret |-> ret, arg |-> arg]

\* System.__init__ reads self.name, self.system_type, self.dim_state,
\* self.dim_inputs and self.dim_observation: each getter raises ValueError
\* when the class attribute is None
System_init_raises(cls) ==
    LET a == ClassAttrs(cls) IN
    IF \/ a._name = None
       \/ a._system_type = None
       \/ ~IsSet(a._dim_state)
       \/ ~IsSet(a._dim_inputs)
       \/ ~IsSet(a._dim_observation)
    THEN "ValueError"
    ELSE ""

\* the instance System.__init__ leaves (state_init and inputs_init None):
\* system_parameters_init is bound to the very dict object self._parameters
System_new(cls) ==
    LET a == ClassAttrs(cls) IN
    [cls |-> cls,
     parameters |-> a._parameters,
     system_parameters_init |-> a._parameters,
     state |-> zeros(Dim(a._dim_state)),
     inputs |-> zeros(Dim(a._dim_inputs)),
     time_old |-> 0,
     integral_alpha |-> 0]

\* GridWorld.__init__ sets dims and terminal_state only and does not call
\* System.__init__: no attribute is checked, state and inputs are not set
GridWorld_new ==
    [cls |-> "GridWorld",
     parameters |-> ClassAttrs("GridWorld")._parameters,
     system_parameters_init |-> None,
     state |-> <<>>,
     inputs |-> <<>>,
     time_old |-> 0,
     integral_alpha |-> 0]

\* System.__init__(system_parameters_init), and GridWorld.__init__
System_init(self, cls, system_parameters_init) ==
    /\ systems[self] = NoSystem
    /\ UNCHANGED <<sim, composed>>
    /\ IF cls = "GridWorld"
       THEN /\ systems' = [systems EXCEPT ![self] = GridWorld_new]
            /\ UNCHANGED dicts
            /\ ghost' = [ghost EXCEPT !.snapshot[self] =
                            dicts[GridWorld_new.parameters]]
            /\ last' = Call("__init__", self, "", None, <<>>)
       ELSE IF System_init_raises(cls) # ""
       THEN /\ UNCHANGED <<systems, dicts, ghost>>
            /\ last' = Call("__init__", self, System_init_raises(cls), None, <<>>)
       ELSE LET d == ClassAttrs(cls)._parameters
                updated == DictUpdate(dicts[d], system_parameters_init)
            IN  /\ dicts' = [dicts EXCEPT ![d] = updated]
                /\ systems' = [systems EXCEPT ![self] = System_new(cls)]
                /\ ghost' = [ghost EXCEPT !.snapshot[self] = updated]
                /\ last' = Call("__init__", self, "", None, <<>>)

\* System.update_system_parameters(inputs): self._parameters.update(inputs);
\* return self.parameters, the dict object updated
update_system_parameters(self, inputs) ==
    /\ systems[self] # NoSystem
    /\ LET d == systems[self].parameters IN
       dicts' = [dicts EXCEPT ![d] = DictUpdate(dicts[d], inputs)]
    /\ last' = Call("update_system_parameters", self, "",
                    systems[self].parameters, inputs)
    /\ UNCHANGED <<systems, sim, composed, ghost>>

\* System.reset(): self.update_system_parameters(self.system_parameters_init),
\* where system_parameters_init is a reference to a dict object of the heap
System_reset_dicts(s) ==
    LET d == s.parameters IN
    [dicts EXCEPT ![d] = DictUpdate(dicts[d], dicts[s.system_parameters_init])]

\* InvertedPendulumPID.reset(): overrides System.reset, parameters untouched
InvertedPendulumPID_reset(s) ==
    [s EXCEPT !.time_old = 0, !.integral_alpha = 0]

\* reset() of an instance, dispatched on its class.  GridWorld inherits
\* System.reset and has no system_parameters_init: AttributeError
reset(self) ==
    /\ systems[self] # NoSystem
    /\ UNCHANGED <<sim, composed, ghost>>
    /\ IF systems[self].cls = "InvertedPendulumPID"
       THEN /\ systems' = [systems EXCEPT ![self] = InvertedPendulumPID_reset(@)]
            /\ UNCHANGED dicts
            /\ last' = Call("reset", self, "", None, <<>>)
       ELSE IF systems[self].system_parameters_init = None
       THEN /\ UNCHANGED <<systems, dicts>>
            /\ last' = Call("reset", self, "AttributeError", None, <<>>)
       ELSE /\ dicts' = System_reset_dicts(systems[self])
            /\ UNCHANGED systems
            /\ last' = Call("reset", self, "", None, <<>>)

\* System.receive_action(action): self.inputs = action
receive_action(self, action) ==
    /\ systems[self] # NoSystem
    /\ systems' = [systems EXCEPT ![self].inputs = action]
    /\ last' = Call("receive_action", self, "", None, action)
    /\ UNCHANGED <<dicts, sim, composed, ghost>>

\* System.receive_state(state): self.state = state
receive_state(self, state) ==
    /\ systems[self] # NoSystem
    /\ systems' = [systems EXCEPT ![self].state = state]
    /\ last' = Call("receive_state", self, "", None, state)
    /\ UNCHANGED <<dicts, sim, composed, ghost>>

NoComposed == [status |-> None]

\* before any constructor ran
InitSystems ==
    /\ dicts = ClassDicts
    /\ systems = [i \in SysIds |-> NoSystem]
    /\ sim = NoSim
    /\ composed = NoComposed
    /\ last = Call("", 0, "", None, <<>>)
    /\ ghost = [snapshot |-> [i \in SysIds |-> EmptyDict],
                observation |-> <<>>, stepped |-> FALSE,
                step_raised |-> "", before |-> ""]

\* the dimension contract and the setters: constructors and receive_*
NextSystems ==
    \/ \E self \in SysIds, cls \in Classes : System_init(self, cls, EmptyDict)
    \/ \E self \in SysIds, v \in VecArgs : receive_action(self, v)
    \/ \E self \in SysIds, v \in VecArgs : receive_state(self, v)

SystemSpec == InitSystems /\ [][NextSystems]_vars

\* the parameter store: constructors with overrides, updates and resets
NextParameters ==
    \/ \E self \in SysIds, cls \in Classes, p \in Patches : System_init(self, cls, p)
    \/ \E self \in SysIds, p \in Patches : update_system_parameters(self, p)
    \/ \E self \in SysIds : reset(self)

ParameterSpec == InitSystems /\ [][NextParameters]_vars

\* systems constructed with their class parameters, and updated
NextUpdates ==
    \/ \E self \in SysIds, cls \in {"KinematicPoint", "InvertedPendulumPID"} :
            System_init(self, cls, EmptyDict)
    \/ \E self \in SysIds, p \in Patches : update_system_parameters(self, p)

UpdateSpec == InitSystems /\ [][NextUpdates]_vars

---------------------------------------------------------------------------
(* Simulator, SciPy, CasADi (simulator.py) *)

\* the values of a component of an initial state, and of an action
StateVals == {0, 1}
ActVals == {0, 1}

\* the state a step may leave is capped, so that the state space is finite:
\* above what one episode can add to an initial state
StateCap == MaxTime + MaxStep + 1

SimClasses == {"SciPy", "CasADi"}
SimSystems == {"KinematicPoint", "InvertedPendulumPID"}
StateVecs == [1..2 -> StateVals]
\* the actions the driver sends: a push along the first input
ActVecs(n) == {[i \in 1..n |-> IF i = 1 THEN a ELSE 0] : a \in ActVals}

\* System.get_observation: the observation returned and the system as the
\* call leaves it.  System._get_observation returns the state;
\* InvertedPendulumPID._get_observation accumulates integral_alpha
get_observation(s, time, state, inputs) ==
    IF s.cls = "InvertedPendulumPID"
    THEN LET delta_time == time - s.time_old
             integral_alpha == s.integral_alpha + delta_time * state[1]
         IN  [observation |-> <<state[1], integral_alpha, state[2]>>,
              system |-> [s EXCEPT !.integral_alpha = integral_alpha]]
    ELSE [observation |-> state, system |-> s]

\* KinematicPoint._compute_state_dynamics: Dstate[i] = inputs[i]
KinematicPoint_compute_state_dynamics(state, inputs) ==
    [i \in 1..Len(state) |-> IF i <= Len(inputs) THEN inputs[i] ELSE 0]

\* one whose derivative is the state instead of the scaled inputs
Mutant_Integrator_derivative_is_state(parameters, state, inputs) == state

\* Integrator._compute_state_dynamics: Dstate = [1 / m * inputs[0],
\* 1 / I * inputs[1]], for inputs that m and I divide (zero inputs are)
Integrator_compute_state_dynamics(parameters, state, inputs) ==
    <<inputs[1] \div parameters["m"], inputs[2] \div parameters["I"]>>

\* the states an integrator may return after integrating `dt` ticks from y
\* with the inputs held: y + dt * Dstate where the derivative is constant
\* (KinematicPoint, Integrator), any state of the box where it is not (the
\* pendulum)
Integrate(s, y, dt) ==
    IF s.cls = "KinematicPoint"
    THEN {[i \in 1..Len(y) |->
            y[i] + dt * KinematicPoint_compute_state_dynamics(y, s.inputs)[i]]}
    ELSE IF s.cls = "Integrator"
    THEN {[i \in 1..Len(y) |->
            y[i] + dt * Integrator_compute_state_dynamics(
                            dicts[s.parameters], y, s.inputs)[i]]}
    ELSE StateVecs

\* what the integrator's numerical library, or the dynamics function it
\* calls, may do in one step: succeed, or raise.  RK45 may also fail a step
\* without raising (status "failed")
StepOutcomes(cls) ==
    IF cls = "SciPy"
    THEN {"ok", "failed", "RuntimeError", "ZeroDivisionError"}
    ELSE {"ok", "RuntimeError", "ZeroDivisionError"}

\* SciPy.initialize_ode_solver: RK45(rhs, self.time_start, self.state,
\* self.time_final, max_step=self.max_step, ...)
SciPy_initialize_ode_solver(sm) ==
    [t |-> sm.time_start, y |-> sm.state, t_bound |-> sm.time_final,
     step_size |-> sm.max_step, status |-> "running"]

\* CasADi.initialize_ode_solver: CasADiSolver(integrator, self.time_start,
\* self.time_final, self.max_step, self.state_init, self.action_init, system)
CasADi_initialize_ode_solver(sm) ==
    [t |-> sm.time_start, y |-> sm.state_init, t_bound |-> sm.time_final,
     step_size |-> sm.max_step, status |-> "running"]

initialize_ode_solver(sm) ==
    IF sm.cls = "SciPy"
    THEN SciPy_initialize_ode_solver(sm)
    ELSE CasADi_initialize_ode_solver(sm)

\* a step that leaves the solver's time where it was
Mutant_step_time_not_advanced(solver) == solver.t

\* CasADiSolver.step: the time the solver holds after a step
CasADiSolver_step_time(solver) == solver.t + solver.step_size

\* a step that does not refuse a finished solver
Mutant_step_on_finished_solver(solver, s, outcome, ynew) ==
    IF outcome # "ok"
    THEN [raised |-> outcome, solver |-> solver]
    ELSE [raised |-> "",
          solver |-> [solver EXCEPT !.t = solver.t + solver.step_size,
                                    !.y = ynew]]

\* CasADiSolver.step
CasADiSolver_step(solver, s, outcome, ynew) ==
    IF solver.t >= solver.t_bound
    THEN [raised |-> "RuntimeError", solver |-> solver]
    ELSE IF outcome # "ok"
    THEN [raised |-> outcome, solver |-> solver]
    ELSE [raised |-> "",
          solver |-> [solver EXCEPT !.t = CasADiSolver_step_time(solver),
                                    !.y = ynew]]

\* scipy.integrate.RK45.step as SciPy.initialize_ode_solver configures it: a
\* solver that is not running raises RuntimeError; a step advances t by at
\* most max_step and never beyond t_bound, where the status becomes finished
RK45_step(solver, s, outcome, h, ynew) ==
    IF solver.status # "running"
    THEN [raised |-> "RuntimeError", solver |-> solver]
    ELSE IF outcome = "failed"
    THEN [raised |-> "", solver |-> [solver EXCEPT !.status = "failed"]]
    ELSE IF outcome # "ok"
    THEN [raised |-> outcome, solver |-> solver]
    ELSE LET t_new == IF solver.t + h > solver.t_bound
                      THEN solver.t_bound ELSE solver.t + h
         IN  [raised |-> "",
              solver |-> [solver EXCEPT
                            !.t = t_new, !.y = ynew,
                            !.status = IF t_new >= solver.t_bound
                                       THEN "finished" ELSE "running"]]

\* the ticks a step integrates over
StepLength(sm, h) ==
    IF sm.cls = "SciPy"
    THEN (IF sm.ODE_solver.t + h > sm.ODE_solver.t_bound
          THEN sm.ODE_solver.t_bound - sm.ODE_solver.t ELSE h)
    ELSE sm.ODE_solver.step_size

ODE_solver_step(sm, s, outcome, h, ynew) ==
    IF sm.cls = "SciPy"
    THEN RK45_step(sm.ODE_solver, s, outcome, h, ynew)
    ELSE CasADiSolver_step(sm.ODE_solver, s, outcome, ynew)

\* Simulator.__init__ (state_init given, action_init None): the simulator
\* and the wrapped system as the constructor leaves them
Simulator_new(cls, s, state_init, time_start, time_final, max_step) ==
    LET action_init == zeros(Dim(ClassAttrs(s.cls)._dim_inputs))
        o == get_observation(s, time_start, state_init, action_init)
        sm == [cls |-> cls, system |-> 1,
               state_init |-> state_init, action_init |-> action_init,
               time_start |-> time_start, time_final |-> time_final,
               max_step |-> max_step,
               time |-> time_start, state |-> state_init,
               observation |-> o.observation,
               ODE_solver |-> <<>>]
    IN  [sim |-> [sm EXCEPT !.ODE_solver = initialize_ode_solver(sm)],
         system |-> o.system]

\* a reset that rebuilds the solver and forgets to restore the time
Mutant_reset_keeps_time(sm, observation) ==
    [sm EXCEPT !.ODE_solver = initialize_ode_solver(sm),
               !.state = sm.state_init,
               !.observation = observation]

\* the fields of the simulator Simulator.reset assigns (diff_eqn branch)
Simulator_reset_fields(sm, observation) ==
    [sm EXCEPT !.ODE_solver = initialize_ode_solver(sm),
               !.time = sm.time_start,
               !.state = sm.state_init,
               !.observation = observation]

\* the wrapped system's reset(), on the instance
system_reset(s) ==
    IF s.cls = "InvertedPendulumPID" THEN InvertedPendulumPID_reset(s) ELSE s

\* Simulator.reset (diff_eqn branch): rebuild the solver, restore time and
\* state, take the observation, then reset the system
Simulator_reset(sm, s) ==
    LET o == get_observation(s, sm.time_start, sm.state_init, sm.action_init)
    IN  [sim |-> Simulator_reset_fields(sm, o.observation),
         system |-> system_reset(o.system),
         dicts |-> IF s.cls = "InvertedPendulumPID"
                   THEN dicts ELSE System_reset_dicts(s)]

\* the lifecycle state of the simulator, read off its fields: INITIALIZED
\* until a step succeeds, EPISODE_ENDED once time_final is reached
Lifecycle ==
    IF ~ghost.stepped THEN "INITIALIZED"
    ELSE IF sim.time >= sim.time_final THEN "EPISODE_ENDED"
    ELSE "STEPPING"

\* Simulator.do_sim_step (diff_eqn branch), for one behaviour of the
\* integrator: its outcome, the adaptive step h RK45 chose and the state
\* ynew the integration produced
do_sim_step(outcome, h, ynew) ==
    /\ sim # NoSim
    /\ UNCHANGED composed
    /\ LET s == systems[sim.system]
           r == ODE_solver_step(sim, s, outcome, h, ynew)
       IN  /\ (r.raised = "" /\ outcome = "ok") =>
                    \A i \in 1..Len(ynew) : ynew[i] <= StateCap
           /\ IF r.raised = "RuntimeError"
              THEN LET z == Simulator_reset(sim, s) IN
                   /\ sim' = z.sim
                   /\ systems' = [systems EXCEPT ![sim.system] = z.system]
                   /\ dicts' = z.dicts
                   /\ last' = Call("do_sim_step", 0, "", FailureSentinel, <<>>)
                   /\ ghost' = [ghost EXCEPT !.stepped = FALSE,
                                             !.step_raised = r.raised,
                                             !.before = Lifecycle]
              ELSE IF r.raised # ""
              THEN /\ last' = Call("do_sim_step", 0, r.raised, None, <<>>)
                   /\ ghost' = [ghost EXCEPT !.step_raised = r.raised,
                                             !.before = Lifecycle]
                   /\ UNCHANGED <<sim, systems, dicts>>
              ELSE LET o == get_observation(s, r.solver.t, r.solver.y, s.inputs)
                   IN  /\ sim' = [sim EXCEPT !.ODE_solver = r.solver,
                                             !.time = r.solver.t,
                                             !.state = r.solver.y,
                                             !.observation = o.observation]
                       /\ systems' = [systems EXCEPT ![sim.system] = o.system]
                       /\ UNCHANGED dicts
                       /\ last' = Call("do_sim_step", 0, "", None, <<>>)
                       /\ ghost' = [ghost EXCEPT !.stepped = TRUE,
                                                 !.step_raised = "",
                                                 !.before = Lifecycle]

\* Simulator.receive_action(action): self.system.receive_action(action)
Simulator_receive_action(action) ==
    /\ sim # NoSim
    /\ systems' = [systems EXCEPT ![sim.system].inputs = action]
    /\ last' = Call("Simulator.receive_action", 0, "", None, action)
    /\ UNCHANGED <<dicts, sim, composed, ghost>>

\* Simulator.reset() called by the driver
Simulator_reset_call ==
    /\ sim # NoSim
    /\ LET z == Simulator_reset(sim, systems[sim.system]) IN
       /\ sim' = z.sim
       /\ systems' = [systems EXCEPT ![sim.system] = z.system]
       /\ dicts' = z.dicts
    /\ last' = Call("Simulator.reset", 0, "", None, <<>>)
    /\ ghost' = [ghost EXCEPT !.stepped = FALSE]
    /\ UNCHANGED composed

\* the state after Simulator.__init__ returned, for a system freshly
\* constructed with its default parameters
InitSimulator ==
    \E cls \in SimClasses, syscls \in SimSystems, state_init \in StateVecs,
       time_start \in 0..1, max_step \in 1..MaxStep :
      \E time_final \in (time_start + 1)..MaxTime :
        LET z == Simulator_new(cls, System_new(syscls), state_init,
                               time_start, time_final, max_step)
        IN  /\ dicts = ClassDicts
            /\ systems = [i \in SysIds |-> IF i = 1 THEN z.system ELSE NoSystem]
            /\ sim = z.sim
            /\ composed = NoComposed
            /\ last = Call("Simulator.__init__", 0, "", None, <<>>)
            /\ ghost = [snapshot |-> [i \in SysIds |-> dicts[System_new(syscls).parameters]],
                        observation |-> z.sim.observation,
                        stepped |-> FALSE,
                        step_raised |-> "", before |-> ""]

Step ==
    \E outcome \in StepOutcomes(sim.cls), h \in 1..sim.max_step :
      \E ynew \in Integrate(systems[sim.system], sim.ODE_solver.y, StepLength(sim, h)) :
        do_sim_step(outcome, h, ynew)

ReceiveAction ==
    \E action \in ActVecs(Dim(ClassAttrs(systems[sim.system].cls)._dim_inputs)) :
        Simulator_receive_action(action)

NextSimulator ==
    \/ Step
    \/ ReceiveAction
    \/ Simulator_reset_call

SimulatorSpec == InitSimulator /\ [][NextSimulator]_vars

\* a driver that keeps calling do_sim_step, choosing actions in between
NextDriver ==
    \/ Step
    \/ ReceiveAction

DriverSpec == InitSimulator /\ [][NextDriver]_vars /\ WF_vars(Step)

\* a Simulator wrapping an Integrator that receives no action: its inputs
\* stay the zeros System.__init__ sets
InitIntegrator ==
    \E cls \in SimClasses, state_init \in StateVecs,
       time_start \in 0..1, max_step \in 1..MaxStep :
      \E time_final \in (time_start + 1)..MaxTime :
        LET z == Simulator_new(cls, System_new("Integrator"), state_init,
                               time_start, time_final, max_step)
        IN  /\ dicts = ClassDicts
            /\ systems = [i \in SysIds |-> IF i = 1 THEN z.system ELSE NoSystem]
            /\ sim = z.sim
            /\ composed = NoComposed
            /\ last = Call("Simulator.__init__", 0, "", None, <<>>)
            /\ ghost = [snapshot |-> [i \in SysIds |-> dicts["Integrator"]],
                        observation |-> z.sim.observation,
                        stepped |-> FALSE,
                        step_raised |-> "", before |-> ""]

\* any number of do_sim_step calls
IntegratorSpec == InitIntegrator /\ [][Step]_vars

---------------------------------------------------------------------------
(* ComposedSystem (system.py) *)

\* an entry of io_mapping: an int, a tuple of ints, or None
IntEntry(n) == [type |-> "int", val |-> <<n>>]
TupleEntry(t) == [type |-> "tuple", val |-> t]
NoneEntry == [type |-> "NoneType", val |-> <<>>]

\* indices are written as the code writes them: from 0
Indices == (0 - 1)..MaxIdx
Entries ==
    {IntEntry(n) : n \in Indices}
        \cup {TupleEntry(t) : t \in UNION {[1..n -> 0..MaxIdx] : n \in 0..2}}
        \cup {NoneEntry}
IoMappings == UNION {[1..n -> Entries] : n \in 1..2}
\* the three modes the constructor accepts and one it does not
OutputModes == {"state", "right", "both", "left"}
\* the argument io_mapping=None (the default), as opposed to a list
io_mapping_None == <<[type |-> "default", val |-> <<>>]>>
ComposableClasses == {"KinematicPoint", "InvertedPendulumPID"}

\* np.arange(n) as an io_mapping: the ints 0 .. n-1
arange_mapping(n) == [i \in 1..n |-> IntEntry(i - 1)]

RECURSIVE extend(_, _)
\* the loop of __get_routing from entry i on: the pairs [i, output], in
\* order (entry i of the sequence is left output i - 1)
extend(io_mapping, i) ==
    IF i > Len(io_mapping) THEN <<>>
    ELSE LET outputs == io_mapping[i].val
         IN  [k \in 1..Len(outputs) |-> <<i - 1, outputs[k]>>]
                \o extend(io_mapping, i + 1)

RECURSIVE sorted(_)
\* sorted(io_mapping_extended, key=lambda x: x[1]): stable, by right input
sorted(pairs) ==
    IF pairs = <<>> THEN <<>>
    ELSE LET least == CHOOSE k \in 1..Len(pairs) :
                        /\ \A j \in 1..Len(pairs) : pairs[k][2] <= pairs[j][2]
                        /\ \A j \in 1..(k - 1) : pairs[j][2] # pairs[k][2]
             rest == [j \in 1..(Len(pairs) - 1) |->
                        IF j < least THEN pairs[j] ELSE pairs[j + 1]]
         IN  <<pairs[least]>> \o sorted(rest)

\* ComposedSystem.__get_routing: the assertion accepts the types tuple, int,
\* np.int32, np.int64 (type(None) is not None, so a None entry fails it);
\* unpacking the transposed array of no pairs raises ValueError
get_routing(io_mapping) ==
    IF \E i \in 1..Len(io_mapping) : io_mapping[i].type \notin {"tuple", "int"}
    THEN [raised |-> "AssertionError", rout_idx |-> <<>>, occupied_idx |-> <<>>]
    ELSE LET io_mapping_extended == sorted(extend(io_mapping, 1))
         IN  IF io_mapping_extended = <<>>
             THEN [raised |-> "ValueError", rout_idx |-> <<>>, occupied_idx |-> <<>>]
             ELSE [raised |-> "",
                   rout_idx |-> [k \in 1..Len(io_mapping_extended) |->
                                    io_mapping_extended[k][1]],
                   occupied_idx |-> [k \in 1..Len(io_mapping_extended) |->
                                    io_mapping_extended[k][2]]]

RECURSIVE ascending(_, _)
\* the members of the set S of naturals up to n, ascending
ascending(S, n) ==
    IF n < 0 THEN <<>>
    ELSE ascending(S, n - 1) \o (IF n \in S THEN <<n>> ELSE <<>>)

\* np.setdiff1d(np.arange(n), occupied_idx): sorted, unique
setdiff1d_arange(n, occupied_idx) ==
    ascending({j \in 0..(n - 1) :
                \A k \in 1..Len(occupied_idx) : occupied_idx[k] # j}, n - 1)

\* a system is an instance of a System subclass or a ComposedSystem
IsComposed(sys) == "sys_left" \in DOMAIN sys

\* the attributes dim_state, dim_inputs, dim_observation and parameters of a
\* system: properties over the class attributes of a System, instance
\* attributes of a ComposedSystem
dim_state(sys) ==
    IF IsComposed(sys) THEN sys.dim_state ELSE Dim(ClassAttrs(sys.cls)._dim_state)
dim_inputs(sys) ==
    IF IsComposed(sys) THEN sys.dim_inputs ELSE Dim(ClassAttrs(sys.cls)._dim_inputs)
dim_observation(sys) ==
    IF IsComposed(sys) THEN sys.dim_observation
    ELSE Dim(ClassAttrs(sys.cls)._dim_observation)
parameters(sys) ==
    IF IsComposed(sys) THEN sys.parameters ELSE dicts[sys.parameters]

\* the dim_observation the constructor derives for an output mode
composed_dim_observation(left, right, output_mode) ==
    IF output_mode = "state" THEN dim_state(left) + dim_state(right)
    ELSE IF output_mode = "right" THEN dim_observation(right)
    ELSE dim_observation(left) + dim_observation(right)

\* ComposedSystem.__init__(sys_left, sys_right, io_mapping, output_mode):
\* the object constructed, or the exception raised
ComposedSystem_new(sys_left, sys_right, io_mapping_arg, output_mode) ==
    LET io_mapping ==
            IF io_mapping_arg = io_mapping_None
            THEN arange_mapping(IF dim_state(sys_left) < dim_inputs(sys_right)
                                THEN dim_state(sys_left)
                                ELSE dim_inputs(sys_right))
            ELSE io_mapping_arg
        routing == get_routing(io_mapping)
        dim_obs == composed_dim_observation(sys_left, sys_right, output_mode)
    IN  IF output_mode \notin {"state", "right", "both"}
        THEN [status |-> "error", raised |-> "AssertionError"]
        ELSE IF routing.raised # ""
        THEN [status |-> "error", raised |-> routing.raised]
        ELSE [status |-> "ok",
              raised |-> "",
              sys_left |-> sys_left,
              sys_right |-> sys_right,
              system_type |-> "diff_eqn",
              parameters |-> DictUpdate(parameters(sys_left),
                                        parameters(sys_right)),
              dim_state |-> dim_state(sys_right) + dim_state(sys_left),
              dim_observation |-> dim_obs,
              rout_idx |-> routing.rout_idx,
              occupied_idx |-> routing.occupied_idx,
              dim_inputs |-> dim_inputs(sys_right) + dim_inputs(sys_left)
                                - Len(routing.occupied_idx),
              free_right_input_indices |->
                    setdiff1d_arange(dim_inputs(sys_right), routing.occupied_idx),
              output_mode |-> output_mode,
              forward_permutation |-> [i \in 1..dim_obs |-> i - 1],
              inverse_permutation |-> [i \in 1..dim_obs |-> i - 1]]

\* a call of the constructor, on fresh instances of two System classes
ComposedSystem_init(sys_left, sys_right, io_mapping, output_mode) ==
    /\ composed = NoComposed
    /\ composed' = ComposedSystem_new(System_new(sys_left), System_new(sys_right),
                                      io_mapping, output_mode)
    /\ last' = Call("ComposedSystem.__init__", 0, composed'.raised, None,
                    [io_mapping |-> io_mapping, output_mode |-> output_mode])
    /\ ghost' = [ghost EXCEPT !.step_raised = "", !.before = ""]
    /\ UNCHANGED <<dicts, systems, sim>>

NextComposed ==
    \E sys_left \in ComposableClasses, sys_right \in ComposableClasses,
       io_mapping \in IoMappings \cup {io_mapping_None},
       output_mode \in OutputModes :
        ComposedSystem_init(sys_left, sys_right, io_mapping, output_mode)

ComposedSpec == InitSystems /\ [][NextComposed]_vars

---------------------------------------------------------------------------
(* ComposedSystem.get_observation: routing and output modes (system.py) *)

\* v[:n] and v[n:]
Take(v, n) == [i \in 1..(IF n < Len(v) THEN n ELSE Len(v)) |-> v[i]]
Drop(v, n) == [i \in 1..(IF n < Len(v) THEN Len(v) - n ELSE 0) |-> v[i + n]]

\* an index numpy accepts for an array of length n, and the position (from
\* 0) it stands for: a negative index counts from the end
InRange(i, n) == (0 - n) <= i /\ i < n
Norm(i, n) == IF i < 0 THEN i + n ELSE i

\* the position (from 1) of x in the sequence q that holds it
PositionIn(q, x) == CHOOSE k \in 1..Len(q) : q[k] = x

\* inputs_for_right = rc.zeros(sys_right.dim_inputs);
\* inputs_for_right[occupied_idx] = outputs_of_left[rout_idx];
\* inputs_for_right[free_right_input_indices] =
\*     rc.reshape(inputs[sys_left.dim_inputs:], shape of the left side).
\* An index out of range raises IndexError, a reshape to another number of
\* elements ValueError; of a repeated index the last assignment stays
inputs_for_right(sys, outputs_of_left, inputs) ==
    LET n == dim_inputs(sys.sys_right)
        free == sys.free_right_input_indices
        rest == Drop(inputs, dim_inputs(sys.sys_left))
        routed(j) == {k \in 1..Len(sys.occupied_idx) :
                        Norm(sys.occupied_idx[k], n) = j}
    IN  IF \E k \in 1..Len(sys.rout_idx) :
                ~InRange(sys.rout_idx[k], Len(outputs_of_left))
        THEN [raised |-> "IndexError", value |-> <<>>]
        ELSE IF \E k \in 1..Len(sys.occupied_idx) : ~InRange(sys.occupied_idx[k], n)
        THEN [raised |-> "IndexError", value |-> <<>>]
        ELSE IF Len(rest) # Len(free)
        THEN [raised |-> "ValueError", value |-> <<>>]
        ELSE [raised |-> "",
              value |-> [i \in 1..n |->
                IF \E k \in 1..Len(free) : free[k] = i - 1
                THEN rest[PositionIn(free, i - 1)]
                ELSE IF routed(i - 1) # {}
                THEN outputs_of_left[
                        Norm(sys.rout_idx[max(routed(i - 1))], Len(outputs_of_left)) + 1]
                ELSE 0]]

RECURSIVE sys_get_observation(_, _, _, _)
\* ComposedSystem._get_observation(time, state, inputs): the exception raised
\* or the output, and the system as the call leaves it.  The state is split
\* without being permuted; "both" concatenates state_for_left and
\* state_for_right
ComposedSystem_get_observation(sys, time, state, inputs) ==
    LET state_for_left == Take(state, dim_state(sys.sys_left))
        state_for_right == Drop(state, dim_state(sys.sys_left))
        left == sys_get_observation(sys.sys_left, time, state_for_left,
                                    Take(inputs, dim_inputs(sys.sys_left)))
        routed == inputs_for_right(sys, left.observation, inputs)
        right == sys_get_observation(sys.sys_right, time, state_for_right,
                                     routed.value)
    IN  IF left.raised # ""
        THEN [raised |-> left.raised, observation |-> <<>>, system |-> sys]
        ELSE IF routed.raised # ""
        THEN [raised |-> routed.raised, observation |-> <<>>,
              system |-> [sys EXCEPT !.sys_left = left.system]]
        ELSE IF right.raised # ""
        THEN [raised |-> right.raised, observation |-> <<>>,
              system |-> [sys EXCEPT !.sys_left = left.system]]
        ELSE [raised |-> "",
              observation |->
                IF sys.output_mode = "right" THEN right.observation
                ELSE IF sys.output_mode = "state" THEN state
                ELSE state_for_left \o state_for_right,
              system |-> [sys EXCEPT !.sys_left = left.system,
                                     !.sys_right = right.system]]

\* get_observation of a system, atomic or composed.  InvertedPendulumPID
\* reads state[0] and state[1]: IndexError on a shorter state
sys_get_observation(sys, time, state, inputs) ==
    IF IsComposed(sys) THEN ComposedSystem_get_observation(sys, time, state, inputs)
    ELSE IF sys.cls = "InvertedPendulumPID" /\ Len(state) < 2
    THEN [raised |-> "IndexError", observation |-> <<>>, system |-> sys]
    ELSE [raised |-> "",
          observation |-> get_observation(sys, time, state, inputs).observation,
          system |-> get_observation(sys, time, state, inputs).system]

\* the io_mappings of the composed systems that are observed: the default,
\* one output to one input, a fan-out, and an output left unconnected
ObservedMappings ==
    {io_mapping_None,
     <<IntEntry(0)>>,
     <<TupleEntry(<<0, 1>>)>>,
     <<TupleEntry(<<>>), IntEntry(0)>>}

\* calls go on while the accumulated terms of the pendulums stay small
AccumulatedBelow(sys, cap) ==
    /\ sys.sys_left.integral_alpha < cap
    /\ sys.sys_right.integral_alpha < cap

\* a call composed.get_observation(time, state, inputs)
ComposedSystem_get_observation_call(time, state, inputs) ==
    /\ composed.status = "ok"
    /\ AccumulatedBelow(composed, MaxStep)
    /\ LET r == ComposedSystem_get_observation(composed, time, state, inputs) IN
       /\ composed' = r.system
       /\ last' = Call("ComposedSystem.get_observation", 0, r.raised,
                       r.observation,
                       [time |-> time, state |-> state, inputs |-> inputs])
    /\ UNCHANGED <<dicts, systems, sim, ghost>>

\* composed systems of two fresh instances, as the constructor leaves them
InitObservation ==
    /\ dicts = ClassDicts
    /\ systems = [i \in SysIds |-> NoSystem]
    /\ sim = NoSim
    /\ \E sys_left \in ComposableClasses, sys_right \in ComposableClasses,
          io_mapping \in ObservedMappings, output_mode \in {"state", "right", "both"} :
         /\ composed = ComposedSystem_new(System_new(sys_left), System_new(sys_right),
                                          io_mapping, output_mode)
         /\ composed.status = "ok"
         /\ last = Call("ComposedSystem.__init__", 0, "", None,
                        [io_mapping |-> io_mapping, output_mode |-> output_mode])
    /\ ghost = [snapshot |-> [i \in SysIds |-> EmptyDict],
                observation |-> <<>>, stepped |-> FALSE,
                step_raised |-> "", before |-> ""]

NextObservation ==
    \E time \in 0..1, state \in [1..composed.dim_state -> StateVals],
       push \in ActVals :
        ComposedSystem_get_observation_call(
            time, state, [i \in 1..composed.dim_inputs |-> push])

ObservationSpec == InitObservation /\ [][NextObservation]_vars

---------------------------------------------------------------------------
(* Simulator.__init__ without state_init (simulator.py) *)

\* an optional argument: None, or a value
Absent == [given |-> FALSE]
Given(v) == [given |-> TRUE, val |-> v]

\* the exception Simulator.__init__(system, state_init) raises, or "".
\* initializer is what initialize_init_state of the simulator's class
\* returns: Absent for the base method, which raises NotImplementedError.
\* The system_type property raises ValueError when _system_type is None;
\* for a diff_eqn system the assertion on state_init comes first
Simulator_init_raises(s, state_init, initializer) ==
    IF ClassAttrs(s.cls)._system_type = None THEN "ValueError"
    ELSE IF ClassAttrs(s.cls)._system_type = "diff_eqn" /\ ~state_init.given
    THEN "AssertionError"
    ELSE IF ~state_init.given /\ ~initializer.given
    THEN "NotImplementedError"
    ELSE ""

\* Simulator.__init__(system, state_init, time_start=, time_final=,
\* max_step=) of class cls or of a subclass of it that defines
\* initialize_init_state, on a freshly constructed system
Simulator_init(cls, syscls, state_init, initializer, time_start, time_final, max_step) ==
    /\ last.op = ""
    /\ LET s == IF syscls = "GridWorld" THEN GridWorld_new ELSE System_new(syscls)
           raised == Simulator_init_raises(s, state_init, initializer)
           z == Simulator_new(cls, s,
                    IF state_init.given THEN state_init.val ELSE initializer.val,
                    time_start, time_final, max_step)
       IN  /\ last' = Call("Simulator.__init__", 0, raised, None,
                        [system |-> syscls, state_init |-> state_init,
                         initialize_init_state |-> initializer])
           /\ IF raised # ""
              THEN /\ sim' = NoSim
                   /\ systems' = [systems EXCEPT ![1] = s]
              ELSE /\ sim' = z.sim
                   /\ systems' = [systems EXCEPT ![1] = z.system]
    /\ UNCHANGED <<dicts, composed, ghost>>

\* a state_init, or what a subclass's initialize_init_state returns
OptionalStates == {Absent} \cup {Given(v) : v \in StateVecs}

NextConstruction ==
    \E cls \in SimClasses, syscls \in SimSystems \cup {"GridWorld"},
       state_init \in OptionalStates, initializer \in OptionalStates,
       time_start \in 0..1, max_step \in 1..MaxStep :
      \E time_final \in (time_start + 1)..MaxTime :
        Simulator_init(cls, syscls, state_init, initializer,
                       time_start, time_final, max_step)

ConstructionSpec == InitSystems /\ [][NextConstruction]_vars

---------------------------------------------------------------------------
(* ComposedSystem.compute_state_dynamics and compose (system.py) *)

\* InvertedPendulumPID._compute_state_dynamics at angle state[0] = 0, where
\* sin(state[0]) = 0: Dstate = [state[1], inputs[0] / (m * l**2)].  The
\* states handed to it hold the angle 0 and inputs that m * l**2 divides
InvertedPendulumPID_compute_state_dynamics(s, state, inputs) ==
    LET m == parameters(s)["m"]
        l == parameters(s)["l"]
    IN  <<state[2], inputs[1] \div (m * l * l)>>

\* v[idx] for an index array idx: IndexError when an index is out of range
FancyIndex(v, idx) ==
    IF \E k \in 1..Len(idx) : ~InRange(idx[k], Len(v))
    THEN [raised |-> "IndexError", value |-> <<>>]
    ELSE [raised |-> "",
          value |-> [k \in 1..Len(idx) |-> v[Norm(idx[k], Len(v)) + 1]]]

RECURSIVE sys_compute_state_dynamics(_, _, _, _)
\* ComposedSystem._compute_state_dynamics(time, state, inputs): the
\* exception raised or the derivative, and the system as the call leaves it
ComposedSystem_compute_state_dynamics(sys, time, state, inputs) ==
    LET permuted == FancyIndex(state, sys.forward_permutation)
        state_for_left == Take(permuted.value, dim_state(sys.sys_left))
        state_for_right == Drop(permuted.value, dim_state(sys.sys_left))
        inputs_for_left == Take(inputs, dim_inputs(sys.sys_left))
        dstate_of_left == sys_compute_state_dynamics(
                            sys.sys_left, time, state_for_left, inputs_for_left)
        outputs_of_left == sys_get_observation(
                            dstate_of_left.system, time, state_for_left,
                            inputs_for_left)
        routed == inputs_for_right(sys, outputs_of_left.observation, inputs)
        dstate_of_right == sys_compute_state_dynamics(
                            sys.sys_right, time, state_for_right, routed.value)
        final_dstate_vector ==
            FancyIndex(dstate_of_left.value \o dstate_of_right.value,
                       sys.inverse_permutation)
        left_after == [sys EXCEPT !.sys_left = outputs_of_left.system]
    IN  IF permuted.raised # ""
        THEN [raised |-> permuted.raised, value |-> <<>>, system |-> sys]
        ELSE IF dstate_of_left.raised # ""
        THEN [raised |-> dstate_of_left.raised, value |-> <<>>, system |-> sys]
        ELSE IF outputs_of_left.raised # ""
        THEN [raised |-> outputs_of_left.raised, value |-> <<>>, system |-> sys]
        ELSE IF routed.raised # ""
        THEN [raised |-> routed.raised, value |-> <<>>, system |-> left_after]
        ELSE IF dstate_of_right.raised # ""
        THEN [raised |-> dstate_of_right.raised, value |-> <<>>,
              system |-> left_after]
        ELSE [raised |-> final_dstate_vector.raised,
              value |-> final_dstate_vector.value,
              system |-> [left_after EXCEPT !.sys_right = dstate_of_right.system]]

\* compute_state_dynamics of a system, atomic or composed.  KinematicPoint
\* writes Dstate[i] = inputs[i] into rc.zeros(dim_state): IndexError when
\* the inputs are longer; InvertedPendulumPID reads state[1] and inputs[0]
sys_compute_state_dynamics(sys, time, state, inputs) ==
    IF IsComposed(sys)
    THEN ComposedSystem_compute_state_dynamics(sys, time, state, inputs)
    ELSE IF sys.cls = "InvertedPendulumPID"
    THEN (IF Len(state) < 2 \/ Len(inputs) < 1
          THEN [raised |-> "IndexError", value |-> <<>>, system |-> sys]
          ELSE [raised |-> "",
                value |-> InvertedPendulumPID_compute_state_dynamics(sys, state, inputs),
                system |-> sys])
    ELSE (IF Len(inputs) > dim_state(sys)
          THEN [raised |-> "IndexError", value |-> <<>>, system |-> sys]
          ELSE [raised |-> "",
                value |-> KinematicPoint_compute_state_dynamics(
                            zeros(dim_state(sys)), inputs),
                system |-> sys])

\* System.compose / ComposedSystem.compose(sys_right, io_mapping,
\* output_mode="state")
compose(sys_left, sys_right, io_mapping, output_mode) ==
    ComposedSystem_new(sys_left, sys_right, io_mapping, output_mode)

\* the right inputs an io_mapping names, in order
RECURSIVE Targets(_)
Targets(io_mapping) ==
    IF io_mapping = <<>> THEN <<>>
    ELSE io_mapping[1].val \o Targets(Tail(io_mapping))

\* an entry per left output: unconnected, one input, or a fan-out
RoutingEntries == {TupleEntry(<<>>), IntEntry(0), IntEntry(1), TupleEntry(<<0, 1>>)}

\* the io_mappings from n_outputs outputs that name inputs of range(n_inputs),
\* each at most once and at least one
RoutingSpecs(n_outputs, n_inputs) ==
    {m \in UNION {[1..n -> RoutingEntries] : n \in 1..2} :
        /\ Len(m) <= n_outputs
        /\ Targets(m) # <<>>
        /\ \A k \in 1..Len(Targets(m)) : Targets(m)[k] < n_inputs
        /\ \A j, k \in 1..Len(Targets(m)) : j # k => Targets(m)[j] # Targets(m)[k]}

\* the routing spec of B into C as an io_mapping of (A composed with B):
\* in mode "state" the outputs of the pair are the state of A followed by
\* that of B, in mode "right" they are the outputs of B
MatchingSpec(sys, io_mapping, output_mode) ==
    IF output_mode = "state"
    THEN [i \in 1..dim_state(sys) |-> TupleEntry(<<>>)] \o io_mapping
    ELSE io_mapping

\* the two groupings of A, B, C under the routing specs of A into B and of
\* B into C, and compute_state_dynamics of each for a state and inputs
compose_three_call(A, B, C, io_AB, io_BC, output_mode, time, state, inputs) ==
    /\ composed = NoComposed
    /\ LET left_first == compose(compose(A, B, io_AB, output_mode), C,
                                 MatchingSpec(A, io_BC, output_mode), "state")
           right_first == compose(A, compose(B, C, io_BC, "state"), io_AB, "state")
       IN  /\ composed' = left_first
           /\ last' = Call("compose", 0, "",
                  [left_first |-> left_first,
                   right_first |-> right_first,
                   dstate_left_first |->
                        IF left_first.status = "ok"
                        THEN LET r == sys_compute_state_dynamics(
                                        left_first, time, state, inputs)
                             IN  [raised |-> r.raised, value |-> r.value]
                        ELSE [raised |-> left_first.raised, value |-> <<>>],
                   dstate_right_first |->
                        IF right_first.status = "ok"
                        THEN LET r == sys_compute_state_dynamics(
                                        right_first, time, state, inputs)
                             IN  [raised |-> r.raised, value |-> r.value]
                        ELSE [raised |-> right_first.raised, value |-> <<>>]],
                  [state |-> state, inputs |-> inputs, output_mode |-> output_mode])
    /\ UNCHANGED <<dicts, systems, sim, ghost>>

\* states of one system: a pendulum at angle 0, at rest or turning; a
\* point on either axis
StatesOf(sys) ==
    IF sys.cls = "InvertedPendulumPID" THEN {<<0, 0>>, <<0, 1>>}
    ELSE {<<0, 1>>, <<1, 0>>}

\* the composed states of A, B, C: the state of A, then B, then C
ComposedStates(A, B, C) ==
    {x \o y \o z : x \in StatesOf(A), y \in StatesOf(B), z \in StatesOf(C)}

\* B is a system whose observation is its state, so that the outputs of
\* (A composed with B) in mode "state" hold the outputs of B
NextCompose ==
    /\ composed = NoComposed
    /\ \E a \in ComposableClasses, c \in ComposableClasses :
      LET A == System_new(a)
          B == System_new("KinematicPoint")
          C == System_new(c)
      IN  \E io_AB \in RoutingSpecs(dim_observation(A), dim_inputs(B)),
             io_BC \in RoutingSpecs(dim_observation(B), dim_inputs(C)),
             output_mode \in {"state", "right"},
             state \in ComposedStates(A, B, C), push \in ActVals :
            compose_three_call(A, B, C, io_AB, io_BC, output_mode, 0, state,
                [i \in 1..(dim_inputs(A) + dim_inputs(B) + dim_inputs(C)
                            - Len(Targets(io_AB)) - Len(Targets(io_BC)))
                    |-> IF i = 1 THEN push ELSE 1 - push])

ComposeSpec == InitSystems /\ [][NextCompose]_vars

---------------------------------------------------------------------------
(* calls of ComposedSystem.compute_state_dynamics (system.py) *)

\* a call composed.compute_state_dynamics(time, state, inputs), once on a
\* composed system as the constructor left it
ComposedSystem_compute_state_dynamics_call(time, state, inputs) ==
    /\ composed.status = "ok"
    /\ last.op = "ComposedSystem.__init__"
    /\ LET r == sys_compute_state_dynamics(composed, time, state, inputs) IN
       /\ composed' = r.system
       /\ last' = Call("ComposedSystem.compute_state_dynamics", 0, r.raised,
                       r.value,
                       [time |-> time, state |-> state, inputs |-> inputs,
                        system |-> composed])
    /\ UNCHANGED <<dicts, systems, sim, ghost>>

\* io_mappings the constructor accepts: the default, one route, a fan-out,
\* a skipped output, a crossing, one input named twice, a negative index
DynamicsMappings ==
    ObservedMappings \cup
    {<<IntEntry(1), IntEntry(0)>>,
     <<IntEntry(0), IntEntry(0)>>,
     <<IntEntry(-1)>>}

\* composed systems of two fresh instances, as the constructor leaves them
InitDynamics ==
    /\ dicts = ClassDicts
    /\ systems = [i \in SysIds |-> NoSystem]
    /\ sim = NoSim
    /\ \E sys_left \in ComposableClasses, sys_right \in ComposableClasses,
          io_mapping \in DynamicsMappings, output_mode \in {"state", "right", "both"} :
         /\ composed = ComposedSystem_new(System_new(sys_left), System_new(sys_right),
                                          io_mapping, output_mode)
         /\ composed.status = "ok"
         /\ last = Call("ComposedSystem.__init__", 0, "", None,
                        [io_mapping |-> io_mapping, output_mode |-> output_mode])
    /\ ghost = [snapshot |-> [i \in SysIds |-> EmptyDict],
                observation |-> <<>>, stepped |-> FALSE,
                step_raised |-> "", before |-> ""]

NextDynamics ==
    /\ last.op = "ComposedSystem.__init__"
    /\ \E x \in StatesOf(composed.sys_left), y \in StatesOf(composed.sys_right),
          push \in ActVals :
            ComposedSystem_compute_state_dynamics_call(
                0, x \o y,
                [i \in 1..composed.dim_inputs |-> IF i = 1 THEN push ELSE 1 - push])

DynamicsSpec == InitDynamics /\ [][NextDynamics]_vars

---------------------------------------------------------------------------
(* ComposedSystem.update_system_parameters and reset (system.py) *)

RECURSIVE sys_update_system_parameters(_, _, _)
\* update_system_parameters(inputs) of a system, as it leaves the dict
\* objects ds: a ComposedSystem hands the patch to sys_left, then to
\* sys_right; a System updates the dict its _parameters refers to
sys_update_system_parameters(sys, ds, inputs) ==
    IF IsComposed(sys)
    THEN sys_update_system_parameters(sys.sys_right,
            sys_update_system_parameters(sys.sys_left, ds, inputs), inputs)
    ELSE [ds EXCEPT ![sys.parameters] = DictUpdate(ds[sys.parameters], inputs)]

\* a call composed.update_system_parameters(inputs): the attribute
\* composed.parameters, merged at construction, is not touched
ComposedSystem_update_system_parameters(inputs) ==
    /\ composed.status = "ok"
    /\ dicts' = sys_update_system_parameters(composed, dicts, inputs)
    /\ last' = Call("ComposedSystem.update_system_parameters", 0, "", None, inputs)
    /\ ghost' = [ghost EXCEPT !.before = "updated"]
    /\ UNCHANGED <<systems, sim, composed>>

\* a call composed.reset(): the body is `pass`
ComposedSystem_reset ==
    /\ composed.status = "ok"
    /\ last' = Call("ComposedSystem.reset", 0, "", None, <<>>)
    /\ UNCHANGED <<dicts, systems, sim, composed, ghost>>

\* composed systems of two fresh instances; the snapshot holds the
\* parameters of sys_left and of sys_right at construction
InitComposedParameters ==
    /\ dicts = ClassDicts
    /\ systems = [i \in SysIds |-> NoSystem]
    /\ sim = NoSim
    /\ \E sys_left \in ComposableClasses, sys_right \in ComposableClasses :
         /\ composed = ComposedSystem_new(System_new(sys_left), System_new(sys_right),
                                          io_mapping_None, "state")
         /\ ghost = [snapshot |-> <<parameters(System_new(sys_left)),
                                    parameters(System_new(sys_right))>>,
                     observation |-> <<>>, stepped |-> FALSE,
                     step_raised |-> "", before |-> ""]
    /\ last = Call("ComposedSystem.__init__", 0, "", None,
                   [io_mapping |-> io_mapping_None, output_mode |-> "state"])

NextComposedParameters ==
    \/ \E p \in Patches : ComposedSystem_update_system_parameters(p)
    \/ ComposedSystem_reset
    \/ \E angle \in StateVals :
        ComposedSystem_get_observation_call(
            1, [i \in 1..composed.dim_state |-> angle],
            [i \in 1..composed.dim_inputs |-> 0])

ComposedParameterSpec == InitComposedParameters /\ [][NextComposedParameters]_vars

---------------------------------------------------------------------------
(* ComposedSystem.permute_state (system.py) *)

\* the index arrays handed to permute_state: every array of length n over
\* range(n), permutation or not
PermArgs == UNION {[1..n -> 0..(n - 1)] : n \in 1..MaxPermLen}
\* what an element of the uninitialised array np.empty_like returns may hold
EmptyVals == {0, 1}

\* the positions (from 0) of an array of length n that the assignment
\* inverse_permutation[permutation] = ... does not write
Unassigned(permutation) ==
    {j \in 0..(Len(permutation) - 1) :
        \A i \in 1..Len(permutation) : permutation[i] # j}

\* the inverse is the permutation itself
Mutant_inverse_is_forward(permutation, empty) == permutation

\* ComposedSystem.get_inverse_permutation: inverse_permutation =
\* np.empty_like(permutation); inverse_permutation[permutation] =
\* np.arange(permutation.size).  Of a repeated index the last assignment
\* stays; a position never indexed keeps what np.empty_like left there
get_inverse_permutation(permutation, empty) ==
    [k \in 1..Len(permutation) |->
        IF (k - 1) \in Unassigned(permutation)
        THEN empty[k - 1]
        ELSE (CHOOSE i \in 1..Len(permutation) :
                /\ permutation[i] = k - 1
                /\ \A j \in (i + 1)..Len(permutation) : permutation[j] # k - 1)
             - 1]

\* ComposedSystem.permute_state(permutation), for one content of the
\* uninitialised array
permute_state(permutation, empty) ==
    /\ composed.status = "ok"
    /\ composed' = [composed EXCEPT
            !.forward_permutation = permutation,
            !.inverse_permutation = get_inverse_permutation(permutation, empty)]
    /\ last' = Call("permute_state", 0, "", None, permutation)
    /\ UNCHANGED <<dicts, systems, sim, ghost>>

\* composed systems as compose() and the constructor leave them
InitPermutation ==
    /\ dicts = ClassDicts
    /\ systems = [i \in SysIds |-> NoSystem]
    /\ sim = NoSim
    /\ \E sys_right \in ComposableClasses, output_mode \in {"state", "right"} :
         composed = ComposedSystem_new(System_new("KinematicPoint"),
                                       System_new(sys_right),
                                       io_mapping_None, output_mode)
    /\ last = Call("ComposedSystem.__init__", 0, "", None, <<>>)
    /\ ghost = [snapshot |-> [i \in SysIds |-> EmptyDict],
                observation |-> <<>>, stepped |-> FALSE,
                step_raised |-> "", before |-> ""]

NextPermutation ==
    \E permutation \in PermArgs :
        \E empty \in [Unassigned(permutation) -> EmptyVals] :
            permute_state(permutation, empty)

PermutationSpec == InitPermutation /\ [][NextPermutation]_vars

---------------------------------------------------------------------------
(* Type inference and dispatch of rc (__utilities.py) *)

\* class RCType(IntEnum)
RCType == [TORCH |-> 3, CASADI |-> 2, NUMPY |-> 1]
Backends == {"NUMPY", "CASADI", "TORCH"}

\* what a call is handed: an array of a backend, a Python int, a tuple (or
\* list) of arrays, or None
Value(b) == [type |-> b, items |-> <<>>]
Tuple(items) == [type |-> "tuple", items |-> [i \in 1..Len(items) |-> Value(items[i])]]
NoneOperand == [type |-> "None", items |-> <<>>]
Tuples == {Tuple(items) : items \in UNION {[1..n -> Backends] : n \in 1..2}}
Operands == {Value(b) : b \in Backends \cup {"int"}} \cup Tuples

\* is_CasADi_typecheck(*args): CASADI if any argument is an instance of a
\* CasADi class, else False (0 in the sum and the max that follow)
is_CasADi_typecheck(args) ==
    IF \E i \in 1..Len(args) : args[i].type = "CASADI" THEN RCType.CASADI ELSE 0

\* the check that never finds a torch tensor
Mutant_is_Torch_never(args) == 0

\* is_Torch_typecheck(*args)
is_Torch_typecheck(args) ==
    IF \E i \in 1..Len(args) : args[i].type = "TORCH" THEN RCType.TORCH ELSE 0

\* type_inference(*args, **kwargs): the RCType returned, or TypeError
type_inference(args, kwargs) ==
    LET is_CasADi == is_CasADi_typecheck(args \o kwargs)
        is_Torch == is_Torch_typecheck(args \o kwargs)
    IN  IF is_CasADi + is_Torch > 4
        THEN [raised |-> "TypeError", rc_type |-> 0]
        ELSE [raised |-> "", rc_type |-> max({is_CasADi, is_Torch, RCType.NUMPY})]

\* the methods of RCTypeHandler by the way their body settles rc_type: dot
\* (like cos, clip, matmul, ...) and if_else use the rc_type they are given;
\* hstack (like vstack, column_stack, concatenate) infers it again from the
\* elements of its argument; max (like min, sum, mean) does so when the
\* argument is a list or tuple; array and zeros (like ones) do so from a
\* list or tuple prototype
RcOps == {"dot", "if_else", "hstack", "max", "zeros", "array"}

\* the rc_type the body of the method dispatches on, or TypeError
body_rc_type(op, args, prototype, rc_type) ==
    IF op = "hstack" \/ (op = "max" /\ args[1].type = "tuple")
    THEN type_inference(args[1].items, <<>>)
    ELSE IF op \in {"zeros", "array"} /\ prototype.type = "tuple"
    THEN type_inference(prototype.items, <<>>)
    ELSE [raised |-> "", rc_type |-> rc_type]

\* the branch taken calls no primitive of numpy, torch or casadi on the
\* operands: if_else returns x or y on NUMPY and TORCH; array on CASADI calls
\* type(prototype), the class tuple when the prototype is a tuple
IsPlainPython(op, prototype, rc_type) ==
    \/ op = "if_else" /\ rc_type # RCType.CASADI
    \/ op = "array" /\ rc_type = RCType.CASADI /\ prototype.type = "tuple"

\* the backends of the arrays the branch hands to the primitive
HandedBackends(args) ==
    {b \in Backends : \E i \in 1..Len(args) :
        \/ args[i].type = b
        \/ \E k \in 1..Len(args[i].items) : args[i].items[k].type = b}

\* the body of the method: it settles rc_type and calls the primitive of
\* that backend, which may raise an error of its own when it is handed an
\* array of another backend (library_raises)
body(op, args, prototype, rc_type, library_raises) ==
    LET r == body_rc_type(op, args, prototype, rc_type)
        foreign == \E b \in HandedBackends(args) : RCType[b] # r.rc_type
    IN  IF r.raised # "" THEN r
        ELSE IF /\ ~IsPlainPython(op, prototype, r.rc_type)
                /\ foreign
                /\ library_raises
        THEN [raised |-> "LibraryError", rc_type |-> 0]
        ELSE r

\* the wrapper of metaclassTypeInferenceDecorator around a method: an
\* rc_type keyword is passed on as it is (0 stands for no keyword), else
\* rc_type is inferred from the arguments and the keyword arguments
wrapper(op, args, prototype, rc_type, library_raises) ==
    LET kwargs == IF prototype = NoneOperand THEN <<>> ELSE <<prototype>>
        inferred == type_inference(args, kwargs)
    IN  IF rc_type # 0 THEN body(op, args, prototype, rc_type, library_raises)
        ELSE IF inferred.raised # "" THEN inferred
        ELSE body(op, args, prototype, inferred.rc_type, library_raises)

\* a call of type_inference
type_inference_call(args, kwargs) ==
    /\ last.op = ""
    /\ LET r == type_inference(args, kwargs) IN
       last' = Call("type_inference", 0, r.raised, r.rc_type,
                    [args |-> args \o kwargs, prototype |-> NoneOperand, rc_type |-> 0])
    /\ UNCHANGED <<dicts, systems, sim, composed, ghost>>

\* a call rc.<op>(*args, prototype=..., rc_type=...): the exception that
\* reaches the caller, or the backend of the branch that returned
rc_call(op, args, prototype, rc_type, library_raises) ==
    /\ last.op = ""
    /\ LET r == wrapper(op, args, prototype, rc_type, library_raises) IN
       last' = Call(op, 0, r.raised, r.rc_type,
                    [args |-> args, prototype |-> prototype, rc_type |-> rc_type])
    /\ UNCHANGED <<dicts, systems, sim, composed, ghost>>

\* the argument lists of the methods
RcArgs(op) ==
    IF op = "dot" THEN {<<Value(a), Value(b)>> : a, b \in Backends}
    ELSE IF op = "if_else"
    THEN {<<Value("int"), Value(a), Value(b)>> : a, b \in Backends}
    ELSE IF op = "hstack" THEN {<<t>> : t \in Tuples}
    ELSE IF op = "max" THEN {<<x>> : x \in Operands \ {Value("int")}}
    ELSE IF op = "zeros" THEN {<<Value("int")>>}
    ELSE {<<Value(b)>> : b \in Backends}

RcPrototypes(op) ==
    IF op \in {"zeros", "array"} THEN (Operands \ {Value("int")}) \cup {NoneOperand}
    ELSE {NoneOperand}

NextBackend ==
    \/ /\ last.op = ""
       /\ \E args \in UNION {[1..n -> Operands] : n \in 0..MaxArgs},
             kwargs \in UNION {[1..n -> Operands] : n \in 0..1} :
                type_inference_call(args, kwargs)
    \/ /\ last.op = ""
       /\ \E op \in RcOps : \E args \in RcArgs(op), prototype \in RcPrototypes(op),
             rc_type \in {0, RCType.NUMPY, RCType.CASADI, RCType.TORCH},
             library_raises \in BOOLEAN :
                rc_call(op, args, prototype, rc_type, library_raises)

BackendSpec == InitSystems /\ [][NextBackend]_vars

---------------------------------------------------------------------------
(* force_row and force_column of rc (__utilities.py) *)

\* an array: its backend, its shape and its elements in row-major order
Array(b, shape, data) == [rc_type |-> b, shape |-> shape, data |-> data]

\* shapes of one and two dimensions; a CasADi matrix always has two
Shapes(b) ==
    {<<r, c>> : r \in 1..MaxVecLen, c \in {1}}
        \cup {<<r, c>> : r \in {1}, c \in 1..MaxVecLen}
        \cup {<<2, 2>>}
        \cup (IF b = "CASADI" THEN {} ELSE {<<n>> : n \in 1..MaxVecLen})

Size(shape) == IF Len(shape) = 1 THEN shape[1] ELSE shape[1] * shape[2]

ArraysOf(b) ==
    UNION {{Array(b, shape, data) : data \in [1..Size(shape) -> {0, 1}]} :
            shape \in Shapes(b)}
Arrays == UNION {ArraysOf(b) : b \in Backends}

\* force_column that returns its argument as it is
Mutant_force_column_identity(argin) == argin

\* rc.force_column(argin), rc_type inferred from argin: on CASADI a row
\* [1, n] with n > 1 is transposed and anything else returned as it is; on
\* NUMPY and TORCH argin.reshape(-1, 1)
force_column(argin) ==
    IF argin.rc_type = "CASADI"
    THEN (IF argin.shape[2] > argin.shape[1] /\ argin.shape[1] = 1
          THEN [argin EXCEPT !.shape = <<argin.shape[2], argin.shape[1]>>]
          ELSE argin)
    ELSE [argin EXCEPT !.shape = <<Size(argin.shape), 1>>]

\* rc.force_row(argin): on CASADI a column [n, 1] with n > 1 is transposed
\* and anything else returned as it is; on NUMPY and TORCH
\* argin.reshape(1, -1)
force_row(argin) ==
    IF argin.rc_type = "CASADI"
    THEN (IF argin.shape[1] > argin.shape[2] /\ argin.shape[2] = 1
          THEN [argin EXCEPT !.shape = <<argin.shape[2], argin.shape[1]>>]
          ELSE argin)
    ELSE [argin EXCEPT !.shape = <<1, Size(argin.shape)>>]

\* the calls rc.force_row(argin), rc.force_column(argin) and
\* rc.force_column(rc.force_row(argin))
force_row_call(argin) ==
    /\ last.op = ""
    /\ last' = Call("force_row", 0, "", force_row(argin), argin)
    /\ UNCHANGED <<dicts, systems, sim, composed, ghost>>

force_column_call(argin) ==
    /\ last.op = ""
    /\ last' = Call("force_column", 0, "", force_column(argin), argin)
    /\ UNCHANGED <<dicts, systems, sim, composed, ghost>>

force_column_force_row_call(argin) ==
    /\ last.op = ""
    /\ last' = Call("force_column(force_row)", 0, "",
                    force_column(force_row(argin)), argin)
    /\ UNCHANGED <<dicts, systems, sim, composed, ghost>>

NextArray ==
    \/ \E argin \in Arrays : force_row_call(argin)
    \/ \E argin \in Arrays : force_column_call(argin)
    \/ \E argin \in Arrays : force_column_force_row_call(argin)

ArraySpec == InitSystems /\ [][NextArray]_vars

---------------------------------------------------------------------------
(* RCTypeHandler.reshape (__utilities.py) *)

\* dim_params: an int, or a list of one or two ints
IntDim(n) == [type |-> "int", val |-> <<n>>]
ListDim(l) == [type |-> "list", val |-> l]

\* element (i, j), from 0, of a matrix whose data lists its rows in order
Element(array, i, j) == array.data[i * array.shape[2] + j + 1]

\* casadi.reshape(array, n_rows, n_cols): the native reshape keeps the
\* column-by-column order of the elements
casadi_reshape(array, n_rows, n_cols) ==
    Array("CASADI", <<n_rows, n_cols>>,
          [p \in 1..(n_rows * n_cols) |->
            LET i == (p - 1) \div n_cols
                j == (p - 1) % n_cols
                k == j * n_rows + i
            IN  Element(array, k % array.shape[1], k \div array.shape[1])])

\* RCTypeHandler.reshape_CasADi_as_np(array, dim_params): result[i, j] =
\* array[(i * n_cols + j) // array_n_cols, (i * n_cols + j) % array_n_cols]
reshape_CasADi_as_np(array, dim_params) ==
    LET n_rows == dim_params[1]
        n_cols == dim_params[2]
        array_n_cols == array.shape[2]
    IN  Array("CASADI", <<n_rows, n_cols>>,
              [p \in 1..(n_rows * n_cols) |->
                LET i == (p - 1) \div n_cols
                    j == (p - 1) % n_cols
                IN  Element(array, (i * n_cols + j) \div array_n_cols,
                                   (i * n_cols + j) % array_n_cols)])

\* rc.reshape(array, dim_params), rc_type inferred from array, for a
\* dim_params of as many elements as the array has.  np.reshape and
\* torch.reshape keep the row-by-row order of the elements
reshape(array, dim_params) ==
    IF array.rc_type = "CASADI"
    THEN (IF dim_params.type = "list"
          THEN (IF Len(dim_params.val) > 1
                THEN reshape_CasADi_as_np(array, dim_params.val)
                ELSE casadi_reshape(array, dim_params.val[1], 1))
          ELSE casadi_reshape(array, dim_params.val[1], 1))
    ELSE [array EXCEPT !.shape = dim_params.val]

\* the target shapes of n elements
DimParams(n) ==
    {IntDim(n), ListDim(<<n>>)} \cup
    {ListDim(<<r, c>>) : r \in {q \in 1..n : n % q = 0},
                         c \in {q \in 1..n : n % q = 0}}

\* a call rc.reshape(array, dim_params)
reshape_call(array, dim_params) ==
    /\ last.op = ""
    /\ Size(dim_params.val) = Size(array.shape)
    /\ last' = Call("reshape", 0, "", reshape(array, dim_params),
                    [array |-> array, dim_params |-> dim_params])
    /\ UNCHANGED <<dicts, systems, sim, composed, ghost>>

NextReshape ==
    /\ last.op = ""
    /\ \E array \in Arrays : \E dim_params \in DimParams(Size(array.shape)) :
            reshape_call(array, dim_params)

ReshapeSpec == InitSystems /\ [][NextReshape]_vars

---------------------------------------------------------------------------
(* Properties of System *)

DimensionsSet(cls) ==
    /\ IsSet(ClassAttrs(cls)._dim_state)
    /\ IsSet(ClassAttrs(cls)._dim_inputs)
    /\ IsSet(ClassAttrs(cls)._dim_observation)

\* C1: after reset() the parameter mapping of the instance equals the
\* snapshot of the parameters it had when its constructor returned,
\* whatever update_system_parameters calls came before
C1_ResetRestoresSnapshot ==
    (last.op = "reset" /\ last.raised = "") =>
        dicts[systems[last.self].parameters] = ghost.snapshot[last.self]

\* C9: no System instance exists with an unset dimension: constructing an
\* instance of a subclass that leaves dim_state, dim_inputs or
\* dim_observation unset fails
C9_NoInstanceWithUnsetDimension ==
    \A i \in SysIds :
        systems[i] # NoSystem => DimensionsSet(systems[i].cls)

\* C10: receive_action and receive_state reject (raise on) a vector whose
\* length differs from dim_inputs / dim_state of the system
C10_SettersRejectDimensionMismatch ==
    /\ (/\ last.op = "receive_action"
        /\ DimensionsSet(systems[last.self].cls)
        /\ Len(last.arg) # Dim(ClassAttrs(systems[last.self].cls)._dim_inputs))
            => last.raised # ""
    /\ (/\ last.op = "receive_state"
        /\ DimensionsSet(systems[last.self].cls)
        /\ Len(last.arg) # Dim(ClassAttrs(systems[last.self].cls)._dim_state))
            => last.raised # ""

---------------------------------------------------------------------------
(* Properties of Simulator *)

C3_NoErrorReachesCaller ==
    (last.op = "do_sim_step" /\ ghost.step_raised # "") => last.raised = ""

\* C4: after Simulator.reset() time is time_start, state is state_init and
\* observation is the observation held right after construction
C4_ResetRestoresInitialValues ==
    (last.op = "Simulator.reset") =>
        /\ sim.time = sim.time_start
        /\ sim.state = sim.state_init
        /\ sim.observation = ghost.observation

\* a do_sim_step call that changed something
DoSimStepTaken ==
    /\ last'.op = "do_sim_step"
    /\ <<sim, last, ghost>>' # <<sim, last, ghost>>

\* C5 (as amended): the transitions of the lifecycle are INITIALIZED ->
\* STEPPING -> {STEPPING, EPISODE_ENDED, FAILED}, FAILED -> INITIALIZED and
\* EPISODE_ENDED -> FAILED: a do_sim_step in EPISODE_ENDED fails and returns
\* the sentinel; a failed step leaves INITIALIZED at time_start, state_init; a
\* step that succeeds leaves STEPPING, or EPISODE_ENDED once time_final is
\* reached; nothing but a failed step brings the simulator back to INITIALIZED
C5_LifecycleTransitions ==
    [][DoSimStepTaken =>
        /\ Lifecycle = "EPISODE_ENDED" => last'.ret = FailureSentinel
        /\ last'.ret = FailureSentinel =>
              /\ Lifecycle' = "INITIALIZED"
              /\ sim'.time = sim'.time_start
              /\ sim'.state = sim'.state_init
        /\ (last'.ret # FailureSentinel /\ last'.raised = "") =>
              /\ Lifecycle \in {"INITIALIZED", "STEPPING"}
              /\ Lifecycle' = IF sim'.time >= sim'.time_final
                              THEN "EPISODE_ENDED" ELSE "STEPPING"
        /\ (Lifecycle # "INITIALIZED" /\ Lifecycle' = "INITIALIZED") =>
              last'.ret = FailureSentinel
      ]_vars

\* a do_sim_step made in EPISODE_ENDED returned the sentinel and left the
\* simulator INITIALIZED
C5_Witness ==
    /\ last.op = "do_sim_step"
    /\ ghost.before = "EPISODE_ENDED"
    /\ last.ret = FailureSentinel
    /\ Lifecycle = "INITIALIZED"

\* C5 (as stated): the lifecycle has exactly the transitions INITIALIZED ->
\* STEPPING -> {STEPPING, EPISODE_ENDED, FAILED} and FAILED -> INITIALIZED:
\* no do_sim_step takes the simulator out of EPISODE_ENDED
C5_ExactlyTheStatedTransitions ==
    [][(DoSimStepTaken /\ Lifecycle = "EPISODE_ENDED") =>
            Lifecycle' = "EPISODE_ENDED"]_vars

C7_NoDuplicateRightInput ==
    composed.status = "ok" =>
        \A j, k \in 1..Len(composed.occupied_idx) :
            j # k => composed.occupied_idx[j] # composed.occupied_idx[k]

\* C8: no ComposedSystem is created whose occupied_idx holds an index
\* outside the inputs of the right system: such an io_mapping fails at
\* construction.
C8_RightInputIndicesInRange ==
    composed.status = "ok" =>
        \A k \in 1..Len(composed.occupied_idx) :
            /\ 0 <= composed.occupied_idx[k]
            /\ composed.occupied_idx[k]
                    < dim_inputs(composed.sys_right)

---------------------------------------------------------------------------
(* Properties of permute_state *)

\* p holds every index of range(Len(p))
IsPermutation(p) == \A j \in 0..(Len(p) - 1) : \E i \in 1..Len(p) : p[i] = j

\* C11: for a permutation P of range(n), after permute_state(P)
\* forward_permutation is P and inverse_permutation[P[i]] = i for every i
C11_PermuteStateStoresInverse ==
    (last.op = "permute_state" /\ IsPermutation(last.arg)) =>
        /\ last.raised = ""
        /\ composed.forward_permutation = last.arg
        /\ Len(composed.inverse_permutation) = Len(last.arg)
        /\ \A i \in 1..Len(last.arg) :
              composed.inverse_permutation[last.arg[i] + 1] = i - 1

\* permute_state was called with a permutation that is not its own inverse
C11_Witness ==
    /\ last.op = "permute_state"
    /\ last.arg = <<1, 2, 0>>
    /\ composed.forward_permutation = <<1, 2, 0>>
    /\ composed.inverse_permutation = <<2, 0, 1>>

\* C12: in every state of a ComposedSystem, after construction and after
\* any permute_state calls, forward_permutation and inverse_permutation are
\* bijections on range(dim_observation)
C12_PermutationsAreBijections ==
    composed.status = "ok" =>
        /\ Len(composed.forward_permutation) = composed.dim_observation
        /\ IsPermutation(composed.forward_permutation)
        /\ Len(composed.inverse_permutation) = composed.dim_observation
        /\ IsPermutation(composed.inverse_permutation)

---------------------------------------------------------------------------
(* Properties of rc *)

\* the backends of the arrays among the operands themselves
DirectBackends(args) == {args[i].type : i \in 1..Len(args)} \cap Backends

\* the backends of every array handed to a call: positional, inside a list
\* or tuple, or as (or inside) the prototype
AllBackends(arg) ==
    LET all == arg.args \o <<arg.prototype>>
    IN  (DirectBackends(all)
            \cup UNION {DirectBackends(all[i].items) : i \in 1..Len(all)})

\* C13: for operands that do not mix TORCH (Differentiable) and CASADI
\* (Symbolic), type_inference returns the backend of highest priority among
\* the operands, TORCH 3 > CASADI 2 > NUMPY 1, and NUMPY when no operand is
\* of a higher one
C13_InferenceReturnsHighestPriority ==
    (/\ last.op = "type_inference"
     /\ ~({"TORCH", "CASADI"} \subseteq DirectBackends(last.arg.args))) =>
        /\ last.raised = ""
        /\ last.ret = max({RCType[b] : b \in DirectBackends(last.arg.args)
                                            \cup {"NUMPY"}})
        /\ RCType.TORCH > RCType.CASADI
        /\ RCType.CASADI > RCType.NUMPY

\* one NUMPY and one TORCH operand gave TORCH
C13_Witness ==
    /\ last.op = "type_inference"
    /\ last.arg.args = <<Value("NUMPY"), Value("TORCH")>>
    /\ last.ret = RCType.TORCH

\* C14: every operation of rc whose operands (positional, keyword or
\* prototype) include both a TORCH and a CASADI value fails with TypeError
\* and returns nothing
C14_MixedOperandsRaiseTypeError ==
    (/\ last.op \in RcOps
     /\ {"TORCH", "CASADI"} \subseteq AllBackends(last.arg)) =>
        last.raised = "TypeError"

\* the last call was force_column(force_row(v)) on a row vector v [1, n]
RoundTripOfRow ==
    /\ last.op = "force_column(force_row)"
    /\ Len(last.arg.shape) = 2
    /\ last.arg.shape[1] = 1

\* C15 (as amended): for a row vector v of shape [1, n], on every backend,
\* force_column(force_row(v)) is the column of shape [n, 1] with the elements
\* of v in their order, and it equals v exactly when n = 1
C15_ForceColumnOfRowIsColumn ==
    RoundTripOfRow =>
        /\ last.ret.shape = <<last.arg.shape[2], 1>>
        /\ last.ret.data = last.arg.data
        /\ last.ret.rc_type = last.arg.rc_type
        /\ (last.ret = last.arg) <=> (last.arg.shape[2] = 1)

\* a row of two elements came back as a column, on CASADI
C15_Witness ==
    /\ RoundTripOfRow
    /\ last.arg.rc_type = "CASADI"
    /\ last.arg.shape = <<1, 2>>
    /\ last.ret.shape = <<2, 1>>

\* C15 (as stated): for a row vector v of shape [1, n], on every backend,
\* force_column(force_row(v)) equals v, shape included
C15_ForceColumnOfRowIsIdentity ==
    RoundTripOfRow => last.ret = last.arg

---------------------------------------------------------------------------
(* Properties of ComposedSystem *)

\* the observation an atomic system returns for a state, read off the
\* system as the call left it: the state, and for InvertedPendulumPID the
\* angle, the accumulated integral and the angular velocity
ObservationOf(s, state) ==
    IF s.cls = "InvertedPendulumPID"
    THEN <<state[1], s.integral_alpha, state[2]>>
    ELSE state

\* C16: ComposedSystem.get_observation returns the raw composed state in
\* mode "state", the observation of the right system in mode "right", and
\* the observation of the left system followed by the observation of the
\* right system in mode "both"
C16_ObservationByOutputMode ==
    (last.op = "ComposedSystem.get_observation" /\ last.raised = "") =>
        LET left == composed.sys_left
            right == composed.sys_right
            state_for_left == Take(last.arg.state, dim_state(left))
            state_for_right == Drop(last.arg.state, dim_state(left))
        IN  /\ composed.output_mode = "state" => last.ret = last.arg.state
            /\ composed.output_mode = "right" =>
                    last.ret = ObservationOf(right, state_for_right)
            /\ composed.output_mode = "both" =>
                    last.ret = ObservationOf(left, state_for_left)
                                \o ObservationOf(right, state_for_right)

\* C17: for systems A, B, C and matching routing specs, (A composed with B)
\* composed with C and A composed with (B composed with C) are both
\* constructed, have the same dim_state and dim_inputs, and
\* compute_state_dynamics returns the same derivative from both
C17_CompositionIsAssociative ==
    last.op = "compose" =>
        /\ last.ret.left_first.status = "ok"
        /\ last.ret.right_first.status = "ok"
        /\ last.ret.left_first.dim_state = last.ret.right_first.dim_state
        /\ last.ret.left_first.dim_inputs = last.ret.right_first.dim_inputs
        /\ last.ret.dstate_left_first.raised = ""
        /\ last.ret.dstate_right_first.raised = ""
        /\ last.ret.dstate_left_first.value = last.ret.dstate_right_first.value

\* a list io_mapping of [0, None] or [None, 0]: one output routed to right
\* input 0, which every system has, and one output absent
HasNoneEntry(io_mapping) ==
    io_mapping \in {<<IntEntry(0), NoneEntry>>, <<NoneEntry, IntEntry(0)>>}

\* C18: an io_mapping entry that is None for a left output is accepted by
\* the ComposedSystem constructor and contributes no routing pair: that
\* output feeds no right input, and the right inputs left unrouted remain
\* free external inputs
C18_NoneEntryIsAccepted ==
    (/\ last.op = "ComposedSystem.__init__"
     /\ last.arg.output_mode \in {"state", "right", "both"}
     /\ HasNoneEntry(last.arg.io_mapping))
    => /\ last.raised = ""
       /\ composed.status = "ok"
       /\ \A i \in 1..Len(last.arg.io_mapping) :
            last.arg.io_mapping[i] = NoneEntry =>
                \A k \in 1..Len(composed.rout_idx) : composed.rout_idx[k] # i - 1
       /\ \A j \in 0..(dim_inputs(composed.sys_right) - 1) :
            (\A k \in 1..Len(composed.occupied_idx) : composed.occupied_idx[k] # j)
                => \E k \in 1..Len(composed.free_right_input_indices) :
                        composed.free_right_input_indices[k] = j

\* C19: constructing a Simulator without an explicit state_init succeeds
\* when a subclass-defined initialize_init_state provides the initial state,
\* and fails exactly when neither a state_init nor such an initializer is
\* available
C19_InitializerProvidesInitialState ==
    (/\ last.op = "Simulator.__init__"
     /\ last.arg.system \in SimSystems
     /\ ~last.arg.state_init.given)
    => /\ last.arg.initialize_init_state.given =>
            /\ last.raised = ""
            /\ sim.state_init = last.arg.initialize_init_state.val
       /\ ~last.arg.initialize_init_state.given => last.raised # ""

\* C20: System.update_system_parameters(patch) merges: afterwards every key
\* of patch maps to the patch's value, every key not in patch keeps its
\* previous value, no key is removed, and the call returns the updated
\* parameter mapping
C20_UpdateMerges ==
    [][last'.op = "update_system_parameters" =>
        LET d == systems[last'.self].parameters
            patch == last'.arg
        IN  /\ \A k \in DOMAIN patch : dicts'[d][k] = patch[k]
            /\ \A k \in (DOMAIN dicts[d]) \ (DOMAIN patch) :
                    k \in DOMAIN dicts'[d] /\ dicts'[d][k] = dicts[d][k]
            /\ (DOMAIN dicts[d]) \subseteq (DOMAIN dicts'[d])
            /\ last'.ret = d]_vars

\* an update of the pendulum's parameters overrode m and kept l
C20_Witness ==
    /\ last.op = "update_system_parameters"
    /\ last.arg = [m |-> 2]
    /\ systems[last.self].cls = "InvertedPendulumPID"
    /\ dicts[last.ret] = [m |-> 2, l |-> 1]

\* C21: for a Simulator wrapping an Integrator that receives zero input, in
\* every state reached by any number of do_sim_step calls the simulator's
\* state equals the initial state
C21_ZeroDerivativeKeepsState ==
    sim.state = sim.state_init

\* steps were taken up to time_final from a state that is not the origin
C21_Witness ==
    /\ systems[sim.system].cls = "Integrator"
    /\ systems[sim.system].inputs = <<0, 0>>
    /\ last.op = "do_sim_step"
    /\ ghost.stepped
    /\ sim.time = sim.time_final
    /\ sim.time > sim.time_start + 1
    /\ sim.state = <<1, 0>>

\* C22: a System's parameter mapping belongs to that instance alone:
\* constructing a System with parameter overrides, or calling
\* update_system_parameters on it, never changes the parameters read through
\* any other System instance, of the same or of another subclass
C22_ParametersOwnedByInstance ==
    [][last'.op \in {"__init__", "update_system_parameters"} =>
        \A other \in SysIds \ {last'.self} :
            systems[other] # NoSystem =>
                dicts'[systems[other].parameters] = dicts[systems[other].parameters]]_vars

\* the quantities a system caches between calls are as a fresh instance
\* holds them
CachedQuantitiesReset(sys) ==
    /\ sys.time_old = 0
    /\ sys.integral_alpha = 0

\* C23: reset() on a ComposedSystem behaves as on an atomic System: after
\* update_system_parameters(patch) on the composition followed by reset() on
\* the composition, the parameters of both sys_left and sys_right equal
\* their construction-time snapshots, and sub-system cached quantities are
\* reset
C23_ComposedResetRestores ==
    (last.op = "ComposedSystem.reset" /\ ghost.before = "updated") =>
        /\ parameters(composed.sys_left) = ghost.snapshot[1]
        /\ parameters(composed.sys_right) = ghost.snapshot[2]
        /\ CachedQuantitiesReset(composed.sys_left)
        /\ CachedQuantitiesReset(composed.sys_right)

\* the permutation is the identity on the whole composed state
IdentityPermutation(sys) ==
    /\ sys.forward_permutation = [i \in 1..sys.dim_state |-> i - 1]
    /\ sys.inverse_permutation = [i \in 1..sys.dim_state |-> i - 1]

\* v is the right system's input vector the routing of sys prescribes for
\* the left observation and the composed inputs
IsRoutedInput(sys, v, outputs_of_left, inputs) ==
    LET free == sys.free_right_input_indices
        rest == Drop(inputs, dim_inputs(sys.sys_left))
    IN  /\ Len(v) = dim_inputs(sys.sys_right)
        /\ \A k \in 1..Len(sys.occupied_idx) :
            /\ sys.occupied_idx[k] \in 0..(Len(v) - 1)
            /\ sys.rout_idx[k] \in 0..(Len(outputs_of_left) - 1)
            /\ v[sys.occupied_idx[k] + 1] = outputs_of_left[sys.rout_idx[k] + 1]
        /\ Len(free) = Len(rest)
        /\ \A j \in 1..Len(free) : v[free[j] + 1] = rest[j]

\* C24: in ComposedSystem.compute_state_dynamics with the identity
\* permutation, the left system is evaluated on the first left.dim_state
\* state components and the first left.dim_inputs input components; the
\* right system's input vector has length right.dim_inputs and holds, at
\* each position occupied_idx[k], component rout_idx[k] of the left
\* observation, and at the j-th free right-input index the j-th composed
\* input after the first left.dim_inputs; the result is the left derivative
\* followed by the right derivative
C24_DynamicsFollowRouting ==
    (/\ last.op = "ComposedSystem.compute_state_dynamics"
     /\ IdentityPermutation(last.arg.system))
    => LET sys == last.arg.system
           state_for_left == Take(last.arg.state, dim_state(sys.sys_left))
           state_for_right == Drop(last.arg.state, dim_state(sys.sys_left))
           inputs_for_left == Take(last.arg.inputs, dim_inputs(sys.sys_left))
           outputs_of_left == sys_get_observation(
                sys.sys_left, last.arg.time, state_for_left, inputs_for_left).observation
       IN  /\ last.raised = ""
           /\ \E v \in [1..dim_inputs(sys.sys_right) -> StateVals \cup ActVals] :
                /\ IsRoutedInput(sys, v, outputs_of_left, last.arg.inputs)
                /\ last.ret =
                    sys_compute_state_dynamics(
                        sys.sys_left, last.arg.time, state_for_left,
                        inputs_for_left).value
                    \o sys_compute_state_dynamics(
                        sys.sys_right, last.arg.time, state_for_right, v).value

\* a list io_mapping of single indices and tuples
OfIndicesAndTuples(io_mapping) ==
    /\ io_mapping # io_mapping_None
    /\ \A i \in 1..Len(io_mapping) : io_mapping[i].type \in {"int", "tuple"}

\* how often left output i is mapped to right input j by the io_mapping,
\* and how often the pair (i, j) stands in the routing tables
TimesMapped(io_mapping, i, j) ==
    IF i + 1 \in 1..Len(io_mapping)
    THEN Cardinality({k \in 1..Len(io_mapping[i + 1].val) : io_mapping[i + 1].val[k] = j})
    ELSE 0
TimesRouted(sys, i, j) ==
    Cardinality({k \in 1..Len(sys.rout_idx) :
                    sys.rout_idx[k] = i /\ sys.occupied_idx[k] = j})

\* C25: for every io_mapping of single indices and tuples, the constructor's
\* routing tables satisfy: occupied_idx is sorted in ascending order,
\* rout_idx and occupied_idx have the same length, and the pairs
\* (rout_idx[k], occupied_idx[k]) are exactly the pairs (left_output_index,
\* right_input_index) of the flattened io_mapping, each once
C25_RoutingTablesHoldThePairs ==
    (/\ last.op = "ComposedSystem.__init__"
     /\ last.arg.output_mode \in {"state", "right", "both"}
     /\ OfIndicesAndTuples(last.arg.io_mapping))
    => /\ composed.status = "ok"
       /\ Len(composed.rout_idx) = Len(composed.occupied_idx)
       /\ \A j, k \in 1..Len(composed.occupied_idx) :
            j < k => composed.occupied_idx[j] <= composed.occupied_idx[k]
       /\ \A i \in 0..(Len(last.arg.io_mapping) - 1), j \in Indices :
            TimesRouted(composed, i, j) = TimesMapped(last.arg.io_mapping, i, j)
       /\ \A k \in 1..Len(composed.rout_idx) :
            composed.rout_idx[k] \in 0..(Len(last.arg.io_mapping) - 1)

---------------------------------------------------------------------------
(* Properties of reshape *)

\* the number of columns of a target shape: one for an int or a one-element
\* list
TargetCols(dim_params) ==
    IF Len(dim_params.val) > 1 THEN dim_params.val[2] ELSE 1
TargetRows(dim_params) == dim_params.val[1]

\* target element (i, j) is source element ((i*cols+j) // src_cols,
\* (i*cols+j) % src_cols)
PlacedRowMajor(source, dim_params, target) ==
    LET cols == TargetCols(dim_params) IN
    /\ target.shape = <<TargetRows(dim_params), cols>>
    /\ \A i \in 0..(TargetRows(dim_params) - 1), j \in 0..(cols - 1) :
        Element(target, i, j) =
            Element(source, (i * cols + j) \div source.shape[2],
                            (i * cols + j) % source.shape[2])

\* C26: for every source matrix and every target shape with the same number
\* of elements (given as an int, a one-element list or a two-element list),
\* reshape on the Symbolic backend places the elements exactly as the
\* row-major reshape of the Concrete backend does: target element (i, j) is
\* source element ((i*cols+j) // src_cols, (i*cols+j) % src_cols)
C26_SymbolicReshapeIsRowMajor ==
    (last.op = "reshape" /\ last.arg.array.rc_type = "CASADI") =>
        PlacedRowMajor(last.arg.array, last.arg.dim_params, last.ret)

---------------------------------------------------------------------------
(* Properties of Simulator.reset and of the simulator's time *)

\* the integrator a freshly constructed Simulator of the same class with the
\* same arguments holds
FreshIntegrator ==
    Simulator_new(sim.cls, System_new(systems[sim.system].cls), sim.state_init,
                  sim.time_start, sim.time_final, sim.max_step).sim.ODE_solver

\* C27: after reset(), the rebuilt integrator starts from time_start and
\* state_init, as that of a freshly constructed Simulator of the same class
\* with the same arguments does, whatever state the simulator was in when
\* reset was called: the steps after a reset then produce the times and
\* states the fresh simulator produces
C27_ResetRebuildsFreshIntegrator ==
    (\/ last.op = "Simulator.reset"
     \/ (last.op = "do_sim_step" /\ last.ret = FailureSentinel))
    => /\ sim.ODE_solver.t = sim.time_start
       /\ sim.ODE_solver.y = sim.state_init
       /\ sim.ODE_solver = FreshIntegrator

\* C28: in every reachable state of a Simulator, time_start <= time <=
\* time_final: no sequence of do_sim_step and reset calls makes the
\* simulator's time exceed time_final, for any max_step > 0, also when
\* time_final - time_start is not a multiple of max_step
C28_TimeWithinTheRun ==
    /\ sim.time_start <= sim.time
    /\ sim.time <= sim.time_final

---------------------------------------------------------------------------
(* Properties of the composed dimensions *)

\* C29: for every ComposedSystem and every output_mode (state, right, both),
\* the number of components get_observation returns equals the
\* dim_observation the constructor derived for that mode
C29_ObservationHasDimObservation ==
    (last.op = "ComposedSystem.get_observation" /\ last.raised = "") =>
        Len(last.ret) = composed.dim_observation

\* the routing names each right input at most once, by an index of
\* range(right.dim_inputs)
ValidRouting(sys) ==
    /\ \A k \in 1..Len(sys.occupied_idx) :
            sys.occupied_idx[k] \in 0..(dim_inputs(sys.sys_right) - 1)
    /\ \A j, k \in 1..Len(sys.occupied_idx) :
            j # k => sys.occupied_idx[j] # sys.occupied_idx[k]
    /\ \A k \in 1..Len(sys.rout_idx) :
            sys.rout_idx[k] \in 0..(dim_observation(sys.sys_left) - 1)

\* C30: for a ComposedSystem on which permute_state was never called, for
\* every output_mode, compute_state_dynamics reads all dim_state components
\* of the composed state and returns a derivative with exactly dim_state =
\* left.dim_state + right.dim_state components: the default forward and
\* inverse permutations act as the identity on the whole state, also when
\* dim_observation differs from dim_state
C30_DefaultPermutationIsIdentityOnState ==
    (/\ last.op = "ComposedSystem.compute_state_dynamics"
     /\ ValidRouting(last.arg.system))
    => LET sys == last.arg.system IN
       /\ last.raised = ""
       /\ FancyIndex(last.arg.state, sys.forward_permutation).value = last.arg.state
       /\ Len(last.ret) = sys.dim_state
       /\ sys.dim_state = dim_state(sys.sys_left) + dim_state(sys.sys_right)

====
